---- MODULE Spec2Model ----
(***************************************************************************)
(* Model of the LED name tag programmer (design.py): the column-major      *)
(* Bitmap, the Message slots and their bitmap resolution, the packet       *)
(* assembly of Design.genBytestream, the size gate of                      *)
(* MainWindow._get_bytestream and the editor handlers that change the      *)
(* design.                                                                 *)
(*                                                                         *)
(* Three specifications share the variables:                               *)
(*   Spec        the editor: default construction, then the handlers       *)
(*   SpecCodec   genBytestream/_get_bytestream applied to drawn designs    *)
(*   SpecBitmap  Bitmap.__init__ and byte_pixels applied to drawn sources  *)
(***************************************************************************)
EXTENDS Integers, Sequences, FiniteSets, TLC

VARIABLES
    msgs,        \* design.msgs: the 8 Message objects
    editors,     \* msgEditors: widget values and MessageEditor.bitmap
    preview,     \* preview.bitmap
    file,        \* the pickled design on disk (.leddesign), or none
    steps,       \* number of editor handlers run so far
    last,        \* what the last handler observed of genBitmap
    stream,      \* result of the last Design.genBytestream call
    handed,      \* result of the last MainWindow._get_bytestream call
    image,       \* SpecBitmap: the pixel source
    bmp,         \* SpecBitmap: result of Bitmap(image, width)
    pixels       \* SpecBitmap: result of list(bmp.byte_pixels(i))

vars == <<msgs, editors, preview, file, steps, last, stream, handed,
          image, bmp, pixels>>

----------------------------------------------------------------------------
(* Program constants *)

MESSAGES == 8
BPB == 8
HEIGHT == 11
HeaderSize == 64
MaxPayload == 4096
MaxImageWidth == 4096
ByteRange == 256
WordRange == 65536

Slots == 0 .. MESSAGES - 1
ANIMS == <<"Left", "Right", "Up", "Down", "Freeze", "Animate", "Pileup",
           "Split", "Laser", "Smooth", "Rotate">>

----------------------------------------------------------------------------
(* Bounds of the model *)

MaxGroups == 2       \* widest small inline bitmap drawn, in column groups
MaxSrcWidth == 17    \* widest small pixel source drawn, in pixels
MaxSteps == 3        \* editor handlers run in one behaviour of Spec

----------------------------------------------------------------------------
(* Integer helpers: Python's unbounded ints *)

Pow2(k) == 2 ^ k

Bit(x, k) == (x \div Pow2(k)) % 2

Shl(x, k) == x * Pow2(k)

Min(a, b) == IF a < b THEN a ELSE b

RECURSIVE OrNat(_, _)
OrNat(a, b) ==
    IF a = 0 THEN b
    ELSE IF b = 0 THEN a
    ELSE (IF (a % 2 = 1) \/ (b % 2 = 1) THEN 1 ELSE 0)
         + 2 * OrNat(a \div 2, b \div 2)

RECURSIVE AndNat(_, _)
AndNat(a, b) ==
    IF a = 0 \/ b = 0 THEN 0
    ELSE (IF (a % 2 = 1) /\ (b % 2 = 1) THEN 1 ELSE 0)
         + 2 * AndNat(a \div 2, b \div 2)

\* a & ~b for a, b >= 0
RECURSIVE AndNotNat(_, _)
AndNotNat(a, b) ==
    IF a = 0 THEN 0
    ELSE (IF (a % 2 = 1) /\ (b % 2 = 0) THEN 1 ELSE 0)
         + 2 * AndNotNat(a \div 2, b \div 2)

Inv(x) == -x - 1

\* Python's x | y on two's complement integers of unbounded width
BitOr(x, y) ==
    IF x >= 0 /\ y >= 0 THEN OrNat(x, y)
    ELSE IF x < 0 /\ y < 0 THEN Inv(AndNat(Inv(x), Inv(y)))
    ELSE IF x < 0 THEN Inv(AndNotNat(Inv(x), y))
    ELSE Inv(AndNotNat(Inv(y), x))

\* the least n with b * n >= a
CeilDiv(a, b) == CHOOSE n \in 0 .. a : b * n >= a /\ b * (n - 1) < a

RECURSIVE SumSeq(_)
SumSeq(s) == IF s = <<>> THEN 0 ELSE Head(s) + SumSeq(Tail(s))

RECURSIVE Concat(_)
Concat(ss) == IF ss = <<>> THEN <<>> ELSE Head(ss) \o Concat(Tail(ss))

Zeros(n) == [k \in 1 .. n |-> 0]

\* big-endian bytes of an unsigned value, as struct packs them
BigEndian(v, n) == [k \in 1 .. n |-> (v \div (ByteRange ^ (n - k))) % ByteRange]

----------------------------------------------------------------------------
(* Pixel sources: a QImage of Format_Mono or another format, whose first   *)
(* HEIGHT scan lines hold the ink.  The ink is described, not enumerated.  *)

bytesPerLine(width) == ((width + 31) \div 32) * 4

InkByte(ink, row, col) ==
    CASE ink.kind = "blank" -> 0
      [] ink.kind = "dot" ->
            IF row = ink.y /\ col = ink.x \div BPB
            THEN Pow2(7 - (ink.x % BPB)) ELSE 0
      [] ink.kind = "hash" -> (16 * row + col + 1) % ByteRange
      [] ink.kind = "text" ->
            IF row + ink.y \in 0 .. HEIGHT - 1
            THEN (16 * (row + ink.y) + col + 1) % ByteRange ELSE 0
      [] OTHER -> 0

\* a QImage: its scan lines below inkRows hold the ink, those a copy() added
\* are zero; invertPixels() has flipped the bytes that hold pixels
QImage(w, h, mono, ink, inverted) ==
    [width |-> w, height |-> h, inkRows |-> h, mono |-> mono, ink |-> ink,
     inverted |-> inverted]

\* obj.bits().asarray(stride * HEIGHT)[k]
ArrayAt(img, k) ==
    LET stride == bytesPerLine(img.width)
        row == k \div stride
        col == k % stride
        base == IF row < img.inkRows THEN InkByte(img.ink, row, col) ELSE 0
    IN  IF img.inverted /\ col < (img.width + 7) \div BPB
        THEN ByteRange - 1 - base ELSE base

----------------------------------------------------------------------------
(* class Bitmap *)

NoException == "none"

BitmapObj(site, data) == [site |-> site, data |-> data]

\* the value None of a bitmap reference
NoBitmap == BitmapObj("None", <<>>)

\* Bitmap(): obj = b''
EmptyBitmap(site) == BitmapObj(site, <<>>)

\* Bitmap(obj, width) with row and column exchanged in the index
BitmapWrongIndex(img, width, site) ==
    LET width_bytes == (width + 7) \div BPB
        stride == bytesPerLine(img.width)
    IN  IF ~img.mono
        THEN [exc |-> "AssertionError", obj |-> NoBitmap]
        ELSE IF \E col \in 0 .. width_bytes - 1, row \in 0 .. HEIGHT - 1 :
                    row * stride + col >= stride * HEIGHT
        THEN [exc |-> "IndexError", obj |-> NoBitmap]
        ELSE [exc |-> NoException,
              obj |-> BitmapObj(site,
                        [k \in 1 .. width_bytes * HEIGHT |->
                            ArrayAt(img, ((k - 1) \div HEIGHT) * stride
                                           + ((k - 1) % HEIGHT))])]

\* Bitmap(obj, width) with the last scan line left out: range(HEIGHT - 1)
BitmapShortRows(img, width, site) ==
    LET width_bytes == (width + 7) \div BPB
        stride == bytesPerLine(img.width)
        rows == HEIGHT - 1
    IN  IF ~img.mono
        THEN [exc |-> "AssertionError", obj |-> NoBitmap]
        ELSE IF \E col \in 0 .. width_bytes - 1, row \in 0 .. rows - 1 :
                    row * stride + col >= stride * HEIGHT
        THEN [exc |-> "IndexError", obj |-> NoBitmap]
        ELSE [exc |-> NoException,
              obj |-> BitmapObj(site,
                        [k \in 1 .. width_bytes * rows |->
                            ArrayAt(img, ((k - 1) % rows) * stride
                                           + ((k - 1) \div rows))])]

\* Bitmap.__init__(obj, width) for a QImage obj: the outcome is the object
\* built, or the exception raised (the assert, or the array's bounds check)
BitmapFromImage(img, width, site) ==
    LET width_bytes == (width + 7) \div BPB
        stride == bytesPerLine(img.width)
    IN  IF ~img.mono
        THEN [exc |-> "AssertionError", obj |-> NoBitmap]
        ELSE IF \E col \in 0 .. width_bytes - 1, row \in 0 .. HEIGHT - 1 :
                    row * stride + col >= stride * HEIGHT
        THEN [exc |-> "IndexError", obj |-> NoBitmap]
        ELSE [exc |-> NoException,
              obj |-> BitmapObj(site,
                        [k \in 1 .. width_bytes * HEIGHT |->
                            ArrayAt(img, ((k - 1) % HEIGHT) * stride
                                           + ((k - 1) \div HEIGHT))])]

\* an object without __bool__ is true
TruthyObject(b) == TRUE

\* Bitmap.__bool__
Truthy(b) == b.data # <<>>

\* Bitmap.width_bytes
width_bytes(b) == Len(b.data) \div HEIGHT

\* list(Bitmap.byte_pixels(i)): pairs <<col, row>>
byte_pixels(b, i) ==
    LET lo == Min(HEIGHT * i, Len(b.data))
        hi == Min(HEIGHT * (i + 1), Len(b.data))
        n == hi - lo
        cells == [k \in 1 .. n * BPB |->
                    <<(k - 1) % BPB, (k - 1) \div BPB>>]
        Lit(c) == Bit(b.data[lo + c[2] + 1], 7 - c[1]) = 1
    IN  SelectSeq(cells, Lit)

----------------------------------------------------------------------------
(* The glyph rasterizer (Qt): a black box, given here by a table of the    *)
(* texts drawn.  boundingRectWidth is the rough estimate of                *)
(* QFontMetrics.boundingRect, drawnWidth the width QPainter.drawText       *)
(* reports, which the estimate does not bound.                             *)

Fonts == {"Sans", "Mono"}

\* texts typed in the editors, and one drawn wider than MaxImageWidth
Texts == {"", " ", "Hi", "Wide"}
LongText == "Long"

boundingRectWidth(font, text) ==
    CASE text = "" -> 0
      [] text = " " -> 3
      [] text = "Hi" -> IF font = "Sans" THEN 5 ELSE 7
      [] text = "Wide" -> 10
      [] text = "Long" -> 2060
      [] OTHER -> 0

drawnWidth(font, text) ==
    CASE text = "" -> 0
      [] text = " " -> 0
      [] text = "Hi" -> IF font = "Sans" THEN 9 ELSE 12
      [] text = "Wide" -> 35
      [] text = "Long" -> 4100
      [] OTHER -> 0

\* the canvas after image.fill(0) and painter.drawText(0, -offset, ...)
drawText(font, text, offset, canvasWidth) ==
    QImage(canvasWidth, HEIGHT, TRUE,
           IF drawnWidth(font, text) = 0
           THEN [kind |-> "blank", x |-> 0, y |-> 0]
           ELSE [kind |-> "text", x |-> 0, y |-> offset],
           FALSE)

----------------------------------------------------------------------------
(* class Message *)

\* Message.__init__
DefaultMessage ==
    [active |-> FALSE, flash |-> FALSE, border |-> FALSE, anim |-> 0,
     speed |-> 3, bitmap |-> NoBitmap, text |-> "", font |-> "Sans",
     offset |-> 0]

\* genBitmap that keeps the bitmap generated from the text in the slot
genBitmapMemo(msg) ==
    IF msg.bitmap # NoBitmap
    THEN [exc |-> NoException, ret |-> msg.bitmap, msg |-> msg,
          raster |-> FALSE]
    ELSE LET w == 2 * boundingRectWidth(msg.font, msg.text)
             built == BitmapFromImage(
                        drawText(msg.font, msg.text, msg.offset, w),
                        drawnWidth(msg.font, msg.text), "genBitmap")
             made == IF w = 0 THEN EmptyBitmap("genBitmap") ELSE built.obj
         IN  [exc |-> IF w = 0 THEN NoException ELSE built.exc,
              ret |-> made,
              msg |-> IF w # 0 /\ built.exc # NoException
                      THEN msg ELSE [msg EXCEPT !.bitmap = made],
              raster |-> TRUE]

\* genBitmap that crops the drawn text to MaxImageWidth pixels
genBitmapCapped(msg) ==
    IF msg.bitmap # NoBitmap
    THEN [exc |-> NoException, ret |-> msg.bitmap, msg |-> msg,
          raster |-> FALSE]
    ELSE LET w == 2 * boundingRectWidth(msg.font, msg.text)
             built == BitmapFromImage(
                        drawText(msg.font, msg.text, msg.offset, w),
                        Min(drawnWidth(msg.font, msg.text), MaxImageWidth),
                        "genBitmap")
         IN  IF w = 0
             THEN [exc |-> NoException, ret |-> EmptyBitmap("genBitmap"),
                   msg |-> msg, raster |-> TRUE]
             ELSE [exc |-> built.exc, ret |-> built.obj, msg |-> msg,
                   raster |-> TRUE]

\* Message.genBitmap: the exception raised or the object returned (ret),
\* the slot after the call (msg), and whether the rasterizer was used
genBitmap(msg) ==
    IF msg.bitmap # NoBitmap
    THEN [exc |-> NoException, ret |-> msg.bitmap, msg |-> msg,
          raster |-> FALSE]
    ELSE LET w == 2 * boundingRectWidth(msg.font, msg.text)
             built == BitmapFromImage(
                        drawText(msg.font, msg.text, msg.offset, w),
                        drawnWidth(msg.font, msg.text), "genBitmap")
         IN  IF w = 0
             THEN [exc |-> NoException, ret |-> EmptyBitmap("genBitmap"),
                   msg |-> msg, raster |-> TRUE]
             ELSE [exc |-> built.exc, ret |-> built.obj, msg |-> msg,
                   raster |-> TRUE]

----------------------------------------------------------------------------
(* class Design *)

\* Design.__init__
DefaultDesign == [i \in Slots |-> DefaultMessage]

MAGIC == <<119, 97, 110, 103>>

B2I(b) == IF b THEN 1 ELSE 0

\* the 8 bytes of 'Q' for the timestamp of a clock reading t; every field
\* of a struct_time but the year is below 256, so each fills one byte
TimestampBytes(t) ==
    BigEndian(t.year - 1999, 3) \o <<t.mon, t.mday, t.hour, t.min, t.sec>>

\* the nibbles exchanged: msg.anim << 4 | msg.speed
ModeByteSwapped(msg) == BitOr(Shl(msg.anim, 4), msg.speed)

\* the animation index cut to its nibble: msg.speed << 4 | (msg.anim & 15)
ModeByteMasked(msg) == BitOr(Shl(msg.speed, 4), AndNat(msg.anim, 15))

\* msg.speed << 4 | msg.anim
ModeByte(msg) == BitOr(Shl(msg.speed, 4), msg.anim)

\* the flash bits of the active slots only
FlashByteActive(ms) ==
    SumSeq([i \in 1 .. MESSAGES |->
              Shl(B2I(ms[i - 1].flash /\ ms[i - 1].active), i - 1)])

\* sum(msg.flash << i for (i, msg) in enumerate(self.msgs))
FlashByte(ms) ==
    SumSeq([i \in 1 .. MESSAGES |-> Shl(B2I(ms[i - 1].flash), i - 1)])

\* sum(msg.border << i for (i, msg) in enumerate(self.msgs))
BorderByte(ms) ==
    SumSeq([i \in 1 .. MESSAGES |-> Shl(B2I(ms[i - 1].border), i - 1)])

\* every slot resolved, active or not
SlotBitmapAlways(msg) == genBitmap(msg)

\* the bitmap genBytestream takes for a slot
SlotBitmap(msg) ==
    IF msg.active THEN genBitmap(msg)
    ELSE [exc |-> NoException, ret |-> EmptyBitmap("inactive"), msg |-> msg,
          raster |-> FALSE]

\* HEADER.pack(...): struct raises unless every 'B' is in 0..255 and every
\* 'H' in 0..65535
HeaderPack(flash, border, modes, lengths, t) ==
    IF \/ flash \notin 0 .. ByteRange - 1
       \/ border \notin 0 .. ByteRange - 1
       \/ \E i \in 1 .. MESSAGES : modes[i] \notin 0 .. ByteRange - 1
       \/ \E i \in 1 .. MESSAGES : lengths[i] \notin 0 .. WordRange - 1
    THEN [exc |-> "struct.error", data |-> <<>>]
    ELSE [exc |-> NoException,
          data |-> MAGIC \o Zeros(2) \o <<flash, border>> \o modes
                   \o Concat([i \in 1 .. MESSAGES |-> BigEndian(lengths[i], 2)])
                   \o Zeros(4) \o TimestampBytes(t) \o Zeros(20)]

\* Design.genBytestream at clock reading t: the exception raised, or the
\* bytes returned
genBytestream(ms, t) ==
    LET got == [i \in Slots |-> SlotBitmap(ms[i])]
        failed == {i \in Slots : got[i].exc # NoException}
        first == CHOOSE i \in failed : \A j \in failed : i <= j
        header == HeaderPack(
            FlashByte(ms),
            BorderByte(ms),
            [i \in 1 .. MESSAGES |-> ModeByte(ms[i - 1])],
            [i \in 1 .. MESSAGES |-> width_bytes(got[i - 1].ret)],
            t)
    IN  IF failed # {} THEN [exc |-> got[first].exc, data |-> <<>>]
        ELSE IF \A i \in Slots : ~Truthy(got[i].ret)
        THEN [exc |-> NoException, data |-> <<>>]
        ELSE IF header.exc # NoException THEN header
        ELSE [exc |-> NoException,
              data |-> header.data
                       \o Concat([i \in 1 .. MESSAGES |-> got[i - 1].ret.data])]

----------------------------------------------------------------------------
(* MainWindow._get_bytestream *)

\* the limit without the header: len(bytestream) > 4096
GateAcceptsPayloadOnly(n) == n # 0 /\ ~(n > MaxPayload)

\* the two tests on the bytestream's length
GateAccepts(n) == n # 0 /\ ~(n > MaxPayload + HeaderSize)

\* the value returned (ok: the bytestream, otherwise None) and the message
\* box shown; an exception of genBytestream passes through
get_bytestream(bs) ==
    IF bs.exc # NoException
    THEN [called |-> TRUE, ok |-> FALSE, data |-> <<>>, msg |-> bs.exc]
    ELSE IF bs.data = <<>>
    THEN [called |-> TRUE, ok |-> FALSE, data |-> <<>>,
          msg |-> "Nothing to program"]
    ELSE IF ~GateAccepts(Len(bs.data))
    THEN [called |-> TRUE, ok |-> FALSE, data |-> <<>>,
          msg |-> "Too much data!"]
    ELSE [called |-> TRUE, ok |-> TRUE, data |-> bs.data, msg |-> ""]

----------------------------------------------------------------------------
(* Values of the variables before the operation that sets them has run *)

NoImage == QImage(0, HEIGHT, TRUE, [kind |-> "blank", x |-> 0, y |-> 0], FALSE)
NotBuilt == [req |-> -1, exc |-> "unbuilt", obj |-> NoBitmap]
NoPixels == [group |-> -1, seq |-> <<>>]
NoLast == [op |-> "none", slot |-> 0, before |-> NoBitmap, ret |-> NoBitmap,
           raster |-> FALSE, exc |-> NoException]
NoStream == [exc |-> "uncalled", data |-> <<>>]
NoHanded == [called |-> FALSE, ok |-> FALSE, data |-> <<>>, msg |-> ""]

\* the variables a specification of the codec or the bitmap leaves alone
InitRest ==
    /\ editors = [i \in Slots |-> 0]
    /\ preview = NoBitmap
    /\ file = <<>>
    /\ steps = 0
    /\ last = NoLast
    /\ stream = NoStream
    /\ handed = NoHanded

----------------------------------------------------------------------------
(* MessageEditor.on_bmpLoadBtn_clicked: the image read from the file chosen *)

\* lines 284-289: convertToFormat's result is dropped, so the format stays;
\* a short image is padded to HEIGHT, the pixels are inverted, and the
\* Bitmap is built over at most MaxImageWidth pixels
LoadBitmap(f) ==
    LET padded == IF f.height < HEIGHT THEN [f EXCEPT !.height = HEIGHT]
                  ELSE f
        img == [padded EXCEPT !.inverted = TRUE]
    IN  BitmapFromImage(img, Min(img.width, MaxImageWidth), "load")

HashInk == [kind |-> "hash", x |-> 0, y |-> 0]

\* the bitmap loaded from a mono image file of g column groups
Loaded(g) == LoadBitmap(QImage(BPB * g, HEIGHT, TRUE, HashInk, FALSE)).obj

----------------------------------------------------------------------------
(* SpecCodec: genBytestream and _get_bytestream on drawn designs *)

\* clock readings of time.localtime()
Times ==
    {[year |-> 1999, mon |-> 1, mday |-> 1, hour |-> 0, min |-> 0, sec |-> 0],
     [year |-> 2026, mon |-> 12, mday |-> 31, hour |-> 23, min |-> 59,
      sec |-> 58]}

\* what a slot can hold as its bitmap source: an inline bitmap (the empty
\* one of bitmap mode, or a loaded one) or a text to draw
SmallSources ==
    {[bitmap |-> EmptyBitmap("toggle"), text |-> ""]}
    \cup {[bitmap |-> Loaded(g), text |-> "Hi"] : g \in 1 .. MaxGroups}
    \cup {[bitmap |-> NoBitmap, text |-> t] : t \in Texts}

\* column groups of wide image files: 372 make 4092 payload bytes, the most
\* below the limit, 373 pass it, 512 are MaxImageWidth pixels and 513 more
BigGroups == {372, 373, 512, 513}

BigSources ==
    {[bitmap |-> Loaded(g), text |-> ""] : g \in BigGroups}
    \cup {[bitmap |-> NoBitmap, text |-> LongText]}

WithSource(m, src) == [m EXCEPT !.bitmap = src.bitmap, !.text = src.text]

\* a slot with everything set: active, both flags, the last animation at
\* the highest speed, a loaded bitmap
BusyMessage ==
    [DefaultMessage EXCEPT !.active = TRUE, !.flash = TRUE, !.border = TRUE,
                           !.anim = Len(ANIMS) - 1, !.speed = 15,
                           !.bitmap = Loaded(1)]

\* a slot that is only shown: active with a loaded bitmap, the rest default
ShownMessage ==
    [DefaultMessage EXCEPT !.active = TRUE, !.bitmap = Loaded(1)]

Backgrounds == {DefaultMessage, BusyMessage}

\* speeds and animation indexes, with values on both sides of the ranges
\* the editor keeps them in
SpeedValues == -1 .. 17
AnimValues == (-1 .. Len(ANIMS) - 1) \cup {15, 16, 17, 255, 256}

Design1(bg, p, v) == [i \in Slots |-> IF i = p THEN v ELSE bg]

Design2(bg, p, v, q, u) ==
    [i \in Slots |-> IF i = p THEN v ELSE IF i = q THEN u ELSE bg]

\* one slot with any flags and source, the others default, busy or shown
InitFlags ==
    \E p \in Slots, bg \in Backgrounds \cup {ShownMessage},
       src \in SmallSources :
    \E a \in BOOLEAN, f \in BOOLEAN, b \in BOOLEAN :
        msgs = Design1(bg, p, WithSource(
                    [DefaultMessage EXCEPT !.active = a, !.flash = f,
                                           !.border = b], src))

\* two slots with any sources, active or not, the others default
InitPairs ==
    \E p \in Slots, q \in Slots : \E s1 \in SmallSources, s2 \in SmallSources :
    \E a1 \in BOOLEAN, a2 \in BOOLEAN :
        /\ p < q
        /\ msgs = Design2(DefaultMessage,
                    p, WithSource([DefaultMessage EXCEPT !.active = a1], s1),
                    q, WithSource([DefaultMessage EXCEPT !.active = a2], s2))

\* one slot with any speed and animation, in either background
InitModes ==
    \E p \in Slots, bg \in Backgrounds, a \in BOOLEAN :
    \E sp \in SpeedValues, an \in AnimValues :
        msgs = Design1(bg, p, [DefaultMessage EXCEPT
                                  !.active = a, !.speed = sp, !.anim = an,
                                  !.bitmap = Loaded(MaxGroups)])

\* one slot with a wide bitmap, in either background
InitBig ==
    \E p \in Slots, bg \in Backgrounds, src \in BigSources :
        msgs = Design1(bg, p, WithSource(
                    [DefaultMessage EXCEPT !.active = TRUE], src))

InitCodec ==
    /\ InitFlags \/ InitPairs \/ InitModes \/ InitBig
    /\ image = NoImage
    /\ bmp = NotBuilt
    /\ pixels = NoPixels
    /\ InitRest

\* on_byteSaveBtn_clicked / on_progBtn_clicked up to the hand-over:
\* _get_bytestream, which calls design.genBytestream
GetBytestream ==
    /\ ~handed.called
    /\ \E t \in Times :
        LET bs == genBytestream(msgs, t)
        IN  /\ stream' = bs
            /\ handed' = get_bytestream(bs)
    /\ msgs' = [i \in Slots |-> SlotBitmap(msgs[i]).msg]
    /\ UNCHANGED <<editors, preview, file, steps, last, image, bmp, pixels>>

NextCodec == GetBytestream

SpecCodec == InitCodec /\ [][NextCodec]_vars

----------------------------------------------------------------------------
(* SpecBitmap: Bitmap.__init__ and byte_pixels on drawn pixel sources *)


SrcWidths == {1, 8, 9, MaxSrcWidth, 2 * MaxSrcWidth}

Inks(w) ==
    {[kind |-> "blank", x |-> 0, y |-> 0], [kind |-> "hash", x |-> 0, y |-> 0]}
    \cup {[kind |-> "dot", x |-> x, y |-> y] :
            x \in 0 .. BPB * ((w + 7) \div BPB) - 1, y \in 0 .. HEIGHT - 1}

Sources ==
    UNION {{QImage(w, HEIGHT, TRUE, ink, FALSE) : ink \in Inks(w)} :
            w \in SrcWidths}

\* requested widths: every width the source has, and the first two that
\* need more column groups than the source has bytes in a scan line
Requests(img) ==
    (0 .. img.width)
    \cup {BPB * bytesPerLine(img.width), BPB * bytesPerLine(img.width) + 1}


Construct ==
    /\ bmp = NotBuilt
    /\ \E w \in Requests(image) :
            bmp' = [req |-> w] @@ BitmapFromImage(image, w, "test")
    /\ UNCHANGED <<msgs, editors, preview, file, steps, last, stream, handed,
                   image, pixels>>

BytePixels ==
    /\ bmp.exc = NoException
    /\ pixels = NoPixels
    /\ \E i \in 0 .. width_bytes(bmp.obj) :
            pixels' = [group |-> i, seq |-> byte_pixels(bmp.obj, i)]
    /\ UNCHANGED <<msgs, editors, preview, file, steps, last, stream, handed,
                   image, bmp>>

InitBitmap ==
    /\ image \in Sources
    /\ bmp = NotBuilt
    /\ pixels = NoPixels
    /\ msgs = DefaultDesign
    /\ InitRest

NextBitmap == Construct \/ BytePixels

SpecBitmap == InitBitmap /\ [][NextBitmap]_vars

----------------------------------------------------------------------------
(* Spec: the editor.  MainWindow.__init__, then the handlers.  The widgets  *)
(* of message.ui are taken to start at the values of Message.__init__.     *)

\* slots whose editors are operated: the first and the last
EditSlots == {0, MESSAGES - 1}

AnimChoices == {0, Len(ANIMS) - 1}
SpeedBoxValues == {1, 4, 8}
OffsetValues == {0, 1}

\* image files offered to the file dialog: a small mono image, a short one
\* (fewer than HEIGHT lines), a tall one, one not mono
ImageFiles ==
    {QImage(MaxSrcWidth, HEIGHT, TRUE, HashInk, FALSE),
     QImage(9, 5, TRUE, HashInk, FALSE),
     QImage(40, HEIGHT + 1, TRUE, HashInk, FALSE),
     QImage(9, HEIGHT, FALSE, HashInk, FALSE)}

\* MessageEditor.__init__
DefaultEditor ==
    [activeBox |-> FALSE, flashBox |-> FALSE, borderBox |-> FALSE,
     animBox |-> 0, speedBox |-> 4, offsetBox |-> 0, textEdit |-> "",
     font |-> "Sans", bmpBox |-> FALSE, bitmap |-> NoBitmap]

\* the message updateDesign writes from the editor's widgets
FromEditor(ed) ==
    [active |-> ed.activeBox, flash |-> ed.flashBox, border |-> ed.borderBox,
     anim |-> ed.animBox, speed |-> ed.speedBox - 1, bitmap |-> ed.bitmap,
     text |-> ed.textEdit, font |-> ed.font, offset |-> ed.offsetBox]

\* the editor updateEditors leaves for a message
ToEditor(msg) ==
    [activeBox |-> msg.active, flashBox |-> msg.flash,
     borderBox |-> msg.border, animBox |-> msg.anim,
     speedBox |-> msg.speed + 1, offsetBox |-> msg.offset,
     textEdit |-> msg.text, font |-> msg.font,
     bmpBox |-> (msg.bitmap # NoBitmap), bitmap |-> msg.bitmap]

\* MainWindow.updatePreview(i) on the design ms: genBitmap of message i is
\* recorded, and becomes the preview's bitmap unless it raised
updatePreview(ms, i) ==
    LET g == genBitmap(ms[i])
    IN  /\ last' = [op |-> "genBitmap", slot |-> i, before |-> ms[i].bitmap,
                    ret |-> g.ret, raster |-> g.raster, exc |-> g.exc]
        /\ preview' = IF g.exc = NoException THEN g.ret ELSE preview
        /\ msgs' = [ms EXCEPT ![i] = g.msg]

\* MainWindow.updateDesign(i), run when editor i emits `changed` with the
\* widgets at ed
updateDesign(i, ed) ==
    /\ editors' = [editors EXCEPT ![i] = ed]
    /\ updatePreview([msgs EXCEPT ![i] = FromEditor(ed)], i)

Changes(ed) ==
    {[ed EXCEPT !.activeBox = ~ed.activeBox],
     [ed EXCEPT !.flashBox = ~ed.flashBox],
     [ed EXCEPT !.borderBox = ~ed.borderBox]}
    \cup {[ed EXCEPT !.animBox = a] : a \in AnimChoices}
    \cup {[ed EXCEPT !.speedBox = v] : v \in SpeedBoxValues}
    \cup {[ed EXCEPT !.offsetBox = o] : o \in OffsetValues}
    \cup {[ed EXCEPT !.textEdit = t] : t \in Texts}
    \cup {[ed EXCEPT !.font = f] : f \in Fonts}

\* a widget of editor i changes (on_fontBtn_clicked for the font)
WidgetChanged ==
    /\ steps < MaxSteps
    /\ \E i \in EditSlots : \E ed \in Changes(editors[i]) \ {editors[i]} :
            updateDesign(i, ed)
    /\ steps' = steps + 1
    /\ UNCHANGED <<file, stream, handed, image, bmp, pixels>>

\* MessageEditor.on_bmpBox_toggled
BmpBoxToggled ==
    /\ steps < MaxSteps
    /\ \E i \in EditSlots :
        LET on == ~editors[i].bmpBox
        IN  updateDesign(i, [editors[i] EXCEPT
                !.bmpBox = on,
                !.bitmap = IF ~on THEN NoBitmap ELSE EmptyBitmap("toggle")])
    /\ steps' = steps + 1
    /\ UNCHANGED <<file, stream, handed, image, bmp, pixels>>

\* MessageEditor.on_bmpLoadBtn_clicked with a readable image chosen; the
\* button is on the page shown in bitmap mode
BmpLoadClicked ==
    /\ steps < MaxSteps
    /\ \E i \in EditSlots, f \in ImageFiles :
        LET built == LoadBitmap(f)
        IN  /\ editors[i].bmpBox
            /\ IF built.exc = NoException
               THEN updateDesign(i, [editors[i] EXCEPT !.bitmap = built.obj])
               ELSE /\ last' = [NoLast EXCEPT !.op = "load", !.slot = i,
                                               !.exc = built.exc]
                    /\ UNCHANGED <<msgs, editors, preview>>
    /\ steps' = steps + 1
    /\ UNCHANGED <<file, stream, handed, image, bmp, pixels>>

\* MainWindow.on_saveBtn_clicked: pickle.dump(self.design)
SaveDesign ==
    /\ steps < MaxSteps
    /\ file' = <<msgs>>
    /\ steps' = steps + 1
    /\ UNCHANGED <<msgs, editors, preview, last, stream, handed, image, bmp,
                   pixels>>

\* MainWindow.loadDesign of a file saved before: pickle.load, updateEditors,
\* updatePreview(0)
LoadDesign ==
    /\ steps < MaxSteps
    /\ file # <<>>
    /\ editors' = [i \in Slots |-> ToEditor(file[1][i])]
    /\ updatePreview(file[1], 0)
    /\ steps' = steps + 1
    /\ UNCHANGED <<file, stream, handed, image, bmp, pixels>>

\* MainWindow.__init__
Init ==
    /\ msgs = DefaultDesign
    /\ editors = [i \in Slots |-> DefaultEditor]
    /\ preview = EmptyBitmap("preview")
    /\ file = <<>>
    /\ steps = 0
    /\ last = NoLast
    /\ stream = NoStream
    /\ handed = NoHanded
    /\ image = NoImage
    /\ bmp = NotBuilt
    /\ pixels = NoPixels

Next ==
    \/ WidgetChanged
    \/ BmpBoxToggled
    \/ BmpLoadClicked
    \/ SaveDesign
    \/ LoadDesign

Spec == Init /\ [][Next]_vars

----------------------------------------------------------------------------
(* Properties of SpecCodec.  They read the design (which the call leaves   *)
(* as it was), the bytes genBytestream returned and what _get_bytestream   *)
(* handed on.                                                              *)

Called == stream # NoStream
Returned == stream.exc = NoException
NonEmpty == Returned /\ stream.data # <<>>

\* header byte k, counted from 0
HeaderByte(k) == stream.data[k + 1]

\* big-endian length word of slot i
LengthWord(i) == ByteRange * HeaderByte(16 + 2 * i) + HeaderByte(17 + 2 * i)

\* slot i is inactive, or its bitmap resolves to an absent one
Absent(i) ==
    \/ ~msgs[i].active
    \/ /\ genBitmap(msgs[i]).exc = NoException
       /\ genBitmap(msgs[i]).ret.data = <<>>

\* a design genBytestream gets as far as packing: no bitmap fails to
\* resolve, and some active one is not absent
Packs ==
    /\ \A i \in Slots :
            msgs[i].active => genBitmap(msgs[i]).exc = NoException
    /\ \E i \in Slots : ~Absent(i)

\* the buffer slot i contributes: that of its resolved bitmap if active
SlotData(i) == IF msgs[i].active THEN genBitmap(msgs[i]).ret.data ELSE <<>>

\* C1: genBytestream returns the empty byte string if and only if every
\* slot is inactive or resolves to an absent bitmap; in every other case
\* what it returns has at least the 64 header bytes, and it does return
\* whenever the active bitmaps resolve and the mode bytes can be packed,
\* whatever the flags are.
C1_EmptyIffAllAbsent ==
    Called =>
        /\ (Returned /\ stream.data = <<>>) <=> (\A i \in Slots : Absent(i))
        /\ NonEmpty => Len(stream.data) >= HeaderSize
        /\ (/\ Packs
            /\ \A i \in Slots : /\ msgs[i].speed \in 0 .. 15
                                /\ msgs[i].anim \in 0 .. ByteRange - 1)
           => NonEmpty

\* C1 witness: an empty result although one slot is active with the empty
\* inline Bitmap() and its flags set, and another is active with a text
\* that draws nothing
C1_Witness ==
    /\ Returned /\ stream.data = <<>>
    /\ \E i, j \in Slots :
        /\ msgs[i].active /\ msgs[i].bitmap = EmptyBitmap("toggle")
        /\ msgs[j].active /\ msgs[j].bitmap = NoBitmap /\ msgs[j].text = " "

\* C2: in a non-empty result, length word i is the width_bytes of slot i's
\* resolved bitmap if the slot is active and 0 otherwise, the bytes after
\* offset 64 are the active slots' buffers in slot order, and the total
\* length is 64 + 11 * (sum of the length words).
C2_LengthsAndPayload ==
    NonEmpty =>
        /\ \A i \in Slots :
                LengthWord(i) = IF msgs[i].active
                                THEN width_bytes(genBitmap(msgs[i]).ret)
                                ELSE 0
        /\ \A i \in Slots : Absent(i) => LengthWord(i) = 0
        /\ SubSeq(stream.data, HeaderSize + 1, Len(stream.data))
              = Concat([k \in 1 .. MESSAGES |-> SlotData(k - 1)])
        /\ Len(stream.data)
              = HeaderSize
                + HEIGHT * SumSeq([k \in 1 .. MESSAGES |-> LengthWord(k - 1)])

\* C2 witness: two active slots with buffers of different widths
C2_Witness ==
    /\ NonEmpty
    /\ \E i, j \in Slots :
        /\ i < j
        /\ LengthWord(i) > LengthWord(j) /\ LengthWord(j) > 0

\* C3: in a non-empty result, bit i of header byte 6 is slot i's flash
\* flag and bit i of header byte 7 its border flag, for active and
\* inactive slots alike.
C3_FlagBits ==
    NonEmpty =>
        \A i \in Slots :
            /\ Bit(HeaderByte(6), i) = B2I(msgs[i].flash)
            /\ Bit(HeaderByte(7), i) = B2I(msgs[i].border)

\* C3 witness: an inactive slot with flash set and border clear, beside an
\* active slot with both clear
C3_Witness ==
    /\ NonEmpty
    /\ \E i, j \in Slots :
        /\ ~msgs[i].active /\ msgs[i].flash /\ ~msgs[i].border
        /\ msgs[j].active /\ ~msgs[j].flash /\ ~msgs[j].border

\* C4: in a non-empty result, for every slot with speed in 0..15 and anim
\* in 0..10, header byte 8 + i is 16 * speed + anim: the high nibble is the
\* speed, the low nibble the animation index.
C4_ModeByte ==
    NonEmpty =>
        \A i \in Slots :
            (msgs[i].speed \in 0 .. 15 /\ msgs[i].anim \in 0 .. Len(ANIMS) - 1)
            => /\ HeaderByte(8 + i) = 16 * msgs[i].speed + msgs[i].anim
               /\ HeaderByte(8 + i) \div 16 = msgs[i].speed
               /\ HeaderByte(8 + i) % 16 = msgs[i].anim

\* C4 witness: an inactive slot at the upper boundary, speed 15 and anim 10
C4_Witness ==
    /\ NonEmpty
    /\ \E i \in Slots :
        /\ ~msgs[i].active
        /\ msgs[i].speed = 15 /\ msgs[i].anim = Len(ANIMS) - 1
        /\ HeaderByte(8 + i) = 250

\* C5: genBytestream returns all the bytes, also beyond 4160, and
\* _get_bytestream hands the bytestream on exactly when its length is in
\* 1..4160; a longer one is answered 'Too much data!' and None, an empty
\* one None.
C5_SizeGate ==
    Called =>
        /\ NonEmpty =>
              Len(stream.data)
                = HeaderSize
                  + SumSeq([k \in 1 .. MESSAGES |-> Len(SlotData(k - 1))])
        /\ handed.ok <=>
              (Returned /\ Len(stream.data) >= 1
                        /\ Len(stream.data) <= MaxPayload + HeaderSize)
        /\ handed.ok => handed.data = stream.data
        /\ (Returned /\ Len(stream.data) > MaxPayload + HeaderSize)
              => (~handed.ok /\ handed.msg = "Too much data!")
        /\ (Returned /\ stream.data = <<>>) => ~handed.ok
        /\ GateAccepts(MaxPayload + HeaderSize)
        /\ ~GateAccepts(MaxPayload + HeaderSize + 1)

\* C5 witness: a result longer than 4160 bytes, returned whole and refused
C5_Witness ==
    /\ Returned
    /\ Len(stream.data) > MaxPayload + HeaderSize
    /\ handed.called /\ ~handed.ok /\ handed.msg = "Too much data!"

\* the original C8: for every slot with no inline bitmap, the bitmap
\* genBitmap returns is at most 4096 pixels (512 column groups) wide
C8_TextBitmapCapped ==
    Called =>
        \A i \in Slots :
            (msgs[i].active /\ msgs[i].bitmap = NoBitmap
                /\ genBitmap(msgs[i]).exc = NoException)
            => width_bytes(genBitmap(msgs[i]).ret) <= MaxImageWidth \div BPB

\* C8 as amended: for a slot with no inline bitmap, the bitmap genBitmap
\* returns has ceil(w/8) column groups for the width w the rasterizer
\* reports for the drawn text, without a cap; the cap of 4096 pixels (512
\* column groups) holds for the bitmaps on_bmpLoadBtn_clicked loads.
C8_TextBitmapUncapped ==
    Called =>
        \A i \in Slots :
            /\ (msgs[i].active /\ msgs[i].bitmap = NoBitmap
                    /\ genBitmap(msgs[i]).exc = NoException)
               => /\ width_bytes(genBitmap(msgs[i]).ret)
                        = CeilDiv(drawnWidth(msgs[i].font, msgs[i].text), BPB)
                  /\ NonEmpty => LengthWord(i)
                        = CeilDiv(drawnWidth(msgs[i].font, msgs[i].text), BPB)
            /\ msgs[i].bitmap.site = "load"
               => width_bytes(msgs[i].bitmap) <= MaxImageWidth \div BPB

\* C8 witness: a text drawn 4100 pixels wide is serialized with a length
\* word of 513 column groups
C8_Witness ==
    /\ NonEmpty
    /\ \E i \in Slots :
        /\ msgs[i].active /\ msgs[i].bitmap = NoBitmap
        /\ drawnWidth(msgs[i].font, msgs[i].text) > MaxImageWidth
        /\ LengthWord(i) > MaxImageWidth \div BPB

OutOfRange(i) == msgs[i].speed \notin 0 .. 15 \/ msgs[i].anim \notin 0 .. 15

\* the original C10: with a speed or an anim outside 0..15 in some slot,
\* serialization of a design with a non-absent active bitmap succeeds, and
\* the other nibble of that slot's mode byte is corrupted
C10_SilentCorruption ==
    (Called /\ Packs) =>
        \A i \in Slots :
            OutOfRange(i) =>
                /\ NonEmpty
                /\ msgs[i].speed \notin 0 .. 15
                        => HeaderByte(8 + i) % 16 # msgs[i].anim
                /\ msgs[i].anim \notin 0 .. 15
                        => HeaderByte(8 + i) \div 16 # msgs[i].speed

\* C10 as amended: genBytestream does not check speed or anim itself, but
\* HEADER.pack checks the packed byte.  For a design with a non-absent
\* active bitmap, serialization raises struct.error exactly when some slot
\* has a speed outside 0..15 or an anim outside 0..255; otherwise it
\* succeeds, and each mode byte is the bitwise OR of speed << 4 and anim:
\* the low nibble is anim % 16 and the high nibble is speed OR-ed with
\* anim >> 4, so an anim in 16..255 can change the speed nibble silently.
C10_PackChecksModeByte ==
    (Called /\ Packs) =>
        /\ stream.exc = "struct.error"
              <=> \E i \in Slots : \/ msgs[i].speed \notin 0 .. 15
                                   \/ msgs[i].anim \notin 0 .. ByteRange - 1
        /\ stream.exc \in {"struct.error", NoException}
        /\ Returned =>
              /\ NonEmpty
              /\ \A i \in Slots :
                    /\ HeaderByte(8 + i) % 16 = msgs[i].anim % 16
                    /\ \A k \in 0 .. 3 :
                          Bit(HeaderByte(8 + i) \div 16, k)
                            = IF Bit(msgs[i].speed, k) = 1
                                 \/ Bit(msgs[i].anim \div 16, k) = 1
                              THEN 1 ELSE 0

\* C10 witness: speed 2 with anim 16 is packed without an error as the
\* byte 48, whose high nibble reads speed 3
C10_Witness ==
    /\ NonEmpty
    /\ \E i \in Slots :
        /\ msgs[i].speed = 2 /\ msgs[i].anim = 16
        /\ HeaderByte(8 + i) = 48
        /\ HeaderByte(8 + i) \div 16 # msgs[i].speed

----------------------------------------------------------------------------
(* Properties of Spec *)

\* C7: when the slot's bitmap is not None, genBitmap returns that very
\* object without using the rasterizer, whatever the text, font and offset;
\* and no call of genBitmap changes the slot: it stays as updateDesign or
\* loadDesign wrote it, and no bitmap generated from text is stored in it.
C7_InlineBitmapIdentity ==
    /\ last.op = "genBitmap" =>
        /\ last.before # NoBitmap =>
              /\ last.exc = NoException
              /\ last.ret = last.before
              /\ ~last.raster
        /\ msgs[last.slot].bitmap = last.before
        /\ msgs[last.slot] = FromEditor(editors[last.slot])
    /\ \A i \in Slots :
        /\ msgs[i].bitmap.site # "genBitmap"
        /\ msgs[i].bitmap = editors[i].bitmap

\* C7 witness: genBitmap has returned the empty inline Bitmap() of a slot
\* whose text would draw, and after an earlier call on the same slot
C7_Witness ==
    /\ last.op = "genBitmap"
    /\ steps >= 2
    /\ last.before = EmptyBitmap("toggle")
    /\ last.ret = last.before
    /\ msgs[last.slot].text = "Hi"

\* the bitmaps held anywhere: by the slots, the editors, the preview, the
\* saved design, and the one genBitmap returned last
HeldBitmaps ==
    {msgs[i].bitmap : i \in Slots}
    \cup {editors[i].bitmap : i \in Slots}
    \cup {preview, last.ret, last.before}
    \cup (IF file = <<>> THEN {} ELSE {file[1][i].bitmap : i \in Slots})

\* C9: in every state the editor reaches, every Bitmap held by a slot, an
\* editor or the preview, or returned by genBitmap, has a buffer whose
\* length is a multiple of 11.
C9_WholeColumnGroups ==
    \A b \in HeldBitmaps : Len(b.data) % HEIGHT = 0

\* C9 witness: a slot and its editor hold a loaded bitmap while the
\* preview shows one generated from a text
C9_Witness ==
    /\ \E i \in Slots :
        /\ msgs[i].bitmap.site = "load" /\ msgs[i].bitmap.data # <<>>
        /\ editors[i].bitmap = msgs[i].bitmap
    /\ preview.site = "genBitmap" /\ preview.data # <<>>
    /\ last.ret = preview

----------------------------------------------------------------------------
(* Properties of SpecBitmap *)

\* pixel (x, y) of a row-major mono source: bit 7 of a byte is the leftmost
SourcePixel(img, x, y) ==
    Bit(ArrayAt(img, y * bytesPerLine(img.width) + x \div BPB),
        7 - (x % BPB)) = 1

\* <<c1, r1>> comes before <<c2, r2>> with rows outer, columns inner
RowMajorBefore(a, b) == a[2] < b[2] \/ (a[2] = b[2] /\ a[1] < b[1])

\* C6: a Bitmap built from a row-major 11-row mono source over a requested
\* width w <= source width has ceil(w/8) column groups, holds at 11*g + r
\* the source's byte of row r and column group g, and byte_pixels(g) yields
\* exactly the set pixels (8g + c, r) of the source as (c, r), rows outer,
\* columns inner, bit 7 being column 0.
C6_BitmapRoundTrip ==
    (bmp # NotBuilt /\ bmp.req <= image.width) =>
        LET groups == CeilDiv(bmp.req, BPB)
            data == bmp.obj.data
            seq == pixels.seq
            g == pixels.group
        IN  /\ bmp.exc = NoException
            /\ width_bytes(bmp.obj) = groups
            /\ Len(data) = HEIGHT * groups
            /\ \A cg \in 0 .. groups - 1, r \in 0 .. HEIGHT - 1 :
                    data[HEIGHT * cg + r + 1]
                        = ArrayAt(image, r * bytesPerLine(image.width) + cg)
            /\ pixels # NoPixels =>
                /\ {seq[k] : k \in 1 .. Len(seq)}
                      = {cr \in (0 .. BPB - 1) \X (0 .. HEIGHT - 1) :
                            g < groups
                            /\ SourcePixel(image, BPB * g + cr[1], cr[2])}
                /\ \A j, k \in 1 .. Len(seq) :
                        j < k => RowMajorBefore(seq[j], seq[k])

\* C6 witness: a width that is no multiple of 8, and the pixels of a column
\* group after the first, several of them set, in more than one row
C6_Witness ==
    /\ bmp.exc = NoException
    /\ bmp.req <= image.width
    /\ bmp.req % BPB # 0
    /\ pixels.group >= 1
    /\ Len(pixels.seq) >= 3
    /\ \E j, k \in 1 .. Len(pixels.seq) : pixels.seq[j][2] # pixels.seq[k][2]

\* C11: a Bitmap built from a mono source over a requested width w that
\* needs more column groups than the source has bytes in a scan line
\* (ceil(w/8) > bytesPerLine) is built without an exception, has ceil(w/8)
\* column groups, and every byte of the groups past the scan line is zero
\* (so none of them holds a byte of another row).  Bitmap.__init__ does not
\* do this: the index (HEIGHT-1)*stride + stride is past the array and the
\* construction raises IndexError.
C11_ZeroFilledBeyondSource ==
    (/\ bmp # NotBuilt
     /\ image.mono
     /\ CeilDiv(bmp.req, BPB) > bytesPerLine(image.width)) =>
        LET groups == CeilDiv(bmp.req, BPB)
            data == bmp.obj.data
        IN  /\ bmp.exc = NoException
            /\ Len(data) = HEIGHT * groups
            /\ \A cg \in bytesPerLine(image.width) .. groups - 1,
                  r \in 0 .. HEIGHT - 1 :
                    data[HEIGHT * cg + r + 1] = 0

====
